---------------------------- MODULE Spec2Model ----------------------------
(***************************************************************************)
(* A model of the SSD1327 display driver: the command encoding layer       *)
(* (command.rs), the driver operations on the display value (lib.rs) and   *)
(* the Basic-mode operations (mode/mod.rs).                                 *)
(*                                                                          *)
(* The bus sink is an external collaborator.  Every operation is modelled   *)
(* as one action that runs the whole call against a sink that is told, as   *)
(* an input of the call, which of the writes it receives fails (failAt, 0   *)
(* for none) and with which transport error.  The writes the sink received  *)
(* during the call are kept, in order, in `log`; `op` names the call with   *)
(* its arguments and `result` is what it returned.  The caller is single-   *)
(* threaded: it makes a call, takes what the call returned (Return), and    *)
(* only then makes its next call.                                           *)
(***************************************************************************)
EXTENDS Integers, Sequences, FiniteSets, TLC

VARIABLES
    mode,       \* the MODE type parameter of the Ssd1327 value
    rotation,   \* Ssd1327.rotation
    size,       \* the SIZE type parameter of the Ssd1327 value
    op,         \* the call that has just returned: [name |-> ..., ...arguments];
                \* [name |-> "none"] between calls
    log,        \* the writes the sink received during that call
    result      \* what that call returned: [tag |-> "Ok" | "Err" | "Panic" | "Val", ...]

vars == <<mode, rotation, size, op, log, result>>

-----------------------------------------------------------------------------
(* Bounds of the model *)

\* Buffers handed to bounded_draw hold up to MaxPages chunks of 16 bytes.
MaxPages == 3

-----------------------------------------------------------------------------
(* u8 arithmetic *)

Byte == 0..255

RECURSIVE BitAnd(_, _)
BitAnd(a, b) ==
    IF a = 0 \/ b = 0 THEN 0
    ELSE (a % 2) * (b % 2) + 2 * BitAnd(a \div 2, b \div 2)

RECURSIVE BitOr(_, _)
BitOr(a, b) ==
    IF a = 0 THEN b
    ELSE IF b = 0 THEN a
    ELSE (IF a % 2 = 1 \/ b % 2 = 1 THEN 1 ELSE 0) + 2 * BitOr(a \div 2, b \div 2)

\* a << n on u8 operands whose result fits the type's width
Shl(a, n) == (a * (2 ^ n)) % 256

\* `b as u8` for a bool
BoolU8(b) == IF b THEN 1 ELSE 0

\* bit i of v
Bit(v, i) == (v \div (2 ^ i)) % 2

\* u8::saturating_sub
SaturatingSub(a, b) == IF a >= b THEN a - b ELSE 0

-----------------------------------------------------------------------------
(* command.rs: the parameter enumerations, as their discriminants *)

HScrollDir == {0, 1}
FrontClockDivideRatio == {193, 225, 0, 48, 80, 112}
NFrames == {7, 4, 5, 6, 0, 1, 2, 3}
VcomhLevel == {0, 5, 7}
DisplayMode == {164, 165, 166, 167}
PhaseLength == {15, 240, 241}
PreChargeVoltageLevel == {0, 5, 7, 8}

\* A Command value: the variant's name and its parameters in declaration order.
Cmd(v, p) == [v |-> v, p |-> p]

Pad7(s) == [i \in 1..7 |-> IF i <= Len(s) THEN s[i] ELSE 0]

\* A ColumnAddress arm that masks its operands to the register's 6 bits.
EncodeColumnAddressMasked(start, end) == <<21, BitAnd(start, 63), BitAnd(end, 63)>>

\* The ColumnAddress arm of Command::send's match.
EncodeColumnAddress(start, end) == <<21, start, end>>

\* The (data, len) pair of Command::send's match; the Noop arm is todo!().
Encode(c) ==
    LET p == c.p
        E(s) == [panic |-> FALSE, data |-> Pad7(s), len |-> Len(s)]
    IN  CASE c.v = "ColumnAddress" -> E(EncodeColumnAddress(p[1], p[2]))
          [] c.v = "RowAddress" -> E(<<117, p[1], p[2]>>)
          [] c.v = "Contrast" -> E(<<129, p[1]>>)
          [] c.v = "Remap" -> E(<<160, p[1]>>)
          [] c.v = "DisplayStartLine" -> E(<<161, p[1]>>)
          [] c.v = "DisplayOffset" -> E(<<162, p[1]>>)
          [] c.v = "DisplayMode" -> E(<<BitOr(BitAnd(167, p[1]), 164)>>)
          [] c.v = "MultiplexRatio" -> E(<<168, p[1]>>)
          [] c.v = "VoltageRegulator" -> E(<<171, BoolU8(p[1])>>)
          [] c.v = "DisplayOn" -> E(<<BitOr(174, BoolU8(p[1]))>>)
          [] c.v = "PhaseLength" -> E(<<177, p[1]>>)
          [] c.v = "FrontClockDivideRatio" -> E(<<179, p[1]>>)
          [] c.v = "SetGPIO" -> E(<<181, p[1]>>)
          [] c.v = "SecondPreChargePeriod" -> E(<<182, p[1]>>)
          [] c.v = "GrayScaleTable" -> E(<<184, BitAnd(p[1], 15)>>)
          [] c.v = "DefaultLinearGrayScaleTable" -> E(<<185>>)
          [] c.v = "PreChargeVoltage" -> E(<<188, p[1]>>)
          [] c.v = "VcomhVoltage" -> E(<<190, p[1]>>)
          [] c.v = "FunctionSelectionB" -> E(<<213, p[1]>>)
          [] c.v = "CommandLock" -> E(<<253, BitOr(Shl(BoolU8(p[1]), 2), 18)>>)
          [] c.v = "HorizontalScrollSetup" ->
                E(<<BitOr(38, p[1]), 0, BitAnd(p[4], 127), p[6],
                    BitAnd(p[5], 127), BitAnd(p[2], 63), BitAnd(p[3], 63)>>)
          [] c.v = "EnableScroll" -> E(<<BitOr(46, BoolU8(p[1]))>>)
          [] c.v = "Noop" -> [panic |-> TRUE, data |-> Pad7(<<>>), len |-> 0]

\* The payload handed to iface.send_commands: &data[0..len]
CommandWrite(c) ==
    LET e == Encode(c)
    IN  [kind |-> "cmd", bytes |-> SubSeq(e.data, 1, e.len)]

DataWrite(bytes) == [kind |-> "data", bytes |-> bytes]

\* generate_remap with the last two flags one bit too high.
GenerateRemapShifted(col_remap, nibble_remap, dir_increment, vertical_scale, com_remap, horizontal_scale, odd_even_com_split) ==
    BitAnd(127,
        BitOr(Shl(BoolU8(col_remap), 0),
        BitOr(Shl(BoolU8(nibble_remap), 1),
        BitOr(Shl(BoolU8(dir_increment), 2),
        BitOr(Shl(BoolU8(vertical_scale), 3),
        BitOr(Shl(BoolU8(com_remap), 4),
        BitOr(Shl(BoolU8(horizontal_scale), 6),
              Shl(BoolU8(odd_even_com_split), 7))))))))

\* generate_remap
GenerateRemap(col_remap, nibble_remap, dir_increment, vertical_scale, com_remap, horizontal_scale, odd_even_com_split) ==
    BitAnd(127,
        BitOr(Shl(BoolU8(col_remap), 0),
        BitOr(Shl(BoolU8(nibble_remap), 1),
        BitOr(Shl(BoolU8(dir_increment), 2),
        BitOr(Shl(BoolU8(vertical_scale), 3),
        BitOr(Shl(BoolU8(com_remap), 4),
        BitOr(Shl(BoolU8(horizontal_scale), 5),
              Shl(BoolU8(odd_even_com_split), 6))))))))

-----------------------------------------------------------------------------
(* The sink (display_interface::WriteOnlyDataCommand) and error propagation *)

\* Transport errors the sink may return (variants of DisplayError).
Errors == {"BusWriteError", "DCError"}

\* What the sink answers to the i-th write of a call.
SinkAnswer(i, failAt, err) == IF i = failAt THEN err ELSE "Ok"

Entry(w, res) == [kind |-> w.kind, bytes |-> w.bytes, res |-> res]

Ok == [tag |-> "Ok"]
Err(e) == [tag |-> "Err", err |-> e]
Panic == [tag |-> "Panic"]
Val(v) == [tag |-> "Val", val |-> v]

\* A chain of writes each followed by `?` that ignores the failures.
TryAllIgnoring(writes, failAt, err) ==
    [log |-> [i \in 1..Len(writes) |-> Entry(writes[i], SinkAnswer(i, failAt, err))],
     result |-> Ok]

\* A chain of writes each followed by `?` (or returned as the call's value):
\* the first failing write ends the call with the sink's error.
TryAll(writes, failAt, err) ==
    LET failed == failAt \in 1..Len(writes)
        n == IF failed THEN failAt ELSE Len(writes)
    IN  [log |-> [i \in 1..n |-> Entry(writes[i], SinkAnswer(i, failAt, err))],
         result |-> IF failed THEN Err(err) ELSE Ok]

\* Command::send: encode, then one send_commands call whose result is returned.
Send(c, failAt, err) ==
    IF Encode(c).panic
    THEN [log |-> <<>>, result |-> Panic]
    ELSE TryAll(<<CommandWrite(c)>>, failAt, err)

-----------------------------------------------------------------------------
(* The display value *)

Modes == {"Basic", "BufferedGraphics", "Terminal"}
Rotations == {"Rotate0", "Rotate90", "Rotate180", "Rotate270"}
Sizes == {"DisplaySize128x128", "DisplaySize128x64"}

\* SIZE::WIDTH and SIZE::HEIGHT
WIDTH(sz) == 128
HEIGHT(sz) == IF sz = "DisplaySize128x128" THEN 128 ELSE 64

\* dimensions() that never transposes.
DimensionsUnrotated(sz, rot) == <<WIDTH(sz), HEIGHT(sz)>>

\* dimensions()
Dimensions(sz, rot) ==
    IF rot \in {"Rotate0", "Rotate180"}
    THEN <<WIDTH(sz), HEIGHT(sz)>>
    ELSE <<HEIGHT(sz), WIDTH(sz)>>

\* A mode conversion whose Terminal payload is the Basic one.
IntoModeBasicPayload(mode2) == IF mode2 = "Terminal" THEN "Basic" ELSE mode2

\* into_mode: the new value's mode is the payload passed in
IntoMode(mode2) == mode2

-----------------------------------------------------------------------------
(* Command sequences of the driver operations *)

\* The rotation table with the 270 degree start line left at 0 and the
\* 180 degree pattern of the 0 degree arm.
RotationPairCopied(rot) ==
    CASE rot = "Rotate0" -> <<92, 0>>
      [] rot = "Rotate90" -> <<88, 0>>
      [] rot = "Rotate180" -> <<92, 0>>
      [] rot = "Rotate270" -> <<23, 0>>

\* The (Remap, DisplayStartLine) operands of set_rotation's match arms.
RotationPair(rot) ==
    CASE rot = "Rotate0" -> <<92, 0>>
      [] rot = "Rotate90" -> <<88, 0>>
      [] rot = "Rotate180" -> <<21, 0>>
      [] rot = "Rotate270" -> <<23, 120>>

\* The writes of set_rotation, in order.
SetRotationWrites(rot) ==
    <<CommandWrite(Cmd("Remap", <<RotationPair(rot)[1]>>)),
      CommandWrite(Cmd("DisplayStartLine", <<RotationPair(rot)[2]>>))>>

\* The (Remap, DisplayStartLine) operands of set_mirror(true)'s match arms.
MirrorPair(rot) ==
    CASE rot = "Rotate0" -> <<94, 0>>
      [] rot = "Rotate90" -> <<88, 0>>
      [] rot = "Rotate180" -> <<21, 0>>
      [] rot = "Rotate270" -> <<23, 120>>

\* The writes of set_mirror, in order.
SetMirrorWrites(rot, mirror) ==
    IF mirror
    THEN <<CommandWrite(Cmd("Remap", <<MirrorPair(rot)[1]>>)),
           CommandWrite(Cmd("DisplayStartLine", <<MirrorPair(rot)[2]>>))>>
    ELSE SetRotationWrites(rot)

\* Brightness values (precharge, contrast).  brightness.rs is not among the
\* sources: the default preset is taken to be its NORMAL preset.
DefaultBrightness == [precharge |-> 2, contrast |-> 95]
Brightnesses == {[precharge |-> 1, contrast |-> 0], DefaultBrightness,
                 [precharge |-> 15, contrast |-> 255]}

\* The writes of set_brightness, in order.
SetBrightnessWrites(b) ==
    <<CommandWrite(Cmd("SecondPreChargePeriod", <<b.precharge>>)),
      CommandWrite(Cmd("Contrast", <<b.contrast>>))>>

\* set_draw_area with the end bounds passed on unchanged.
SetDrawAreaWritesExclusive(start, end) ==
    <<CommandWrite(Cmd("ColumnAddress", <<start[1], end[1]>>)),
      CommandWrite(Cmd("RowAddress", <<start[2], end[2]>>))>>

\* The writes of set_draw_area, in order.
SetDrawAreaWrites(start, end) ==
    <<CommandWrite(Cmd("ColumnAddress", <<start[1], SaturatingSub(end[1], 1)>>)),
      CommandWrite(Cmd("RowAddress", <<start[2], SaturatingSub(end[2], 1)>>))>>

\* set_column: ColumnAddress(column, SIZE::WIDTH - column).  The u8 subtraction
\* panics for column > WIDTH when overflow checks are compiled in and wraps otherwise.
SetColumnRun(sz, column, failAt, err, overflowChecks) ==
    IF column > WIDTH(sz) /\ overflowChecks
    THEN [log |-> <<>>, result |-> Panic]
    ELSE Send(Cmd("ColumnAddress", <<column, (WIDTH(sz) - column) % 256>>), failAt, err)

\* set_row: RowAddress(row, SIZE::HEIGHT - row), with the same subtraction.
SetRowRun(sz, row, failAt, err, overflowChecks) ==
    IF row > HEIGHT(sz) /\ overflowChecks
    THEN [log |-> <<>>, result |-> Panic]
    ELSE Send(Cmd("RowAddress", <<row, (HEIGHT(sz) - row) % 256>>), failAt, err)

\* SIZE::configure.  size.rs is not among the sources: the size configuration
\* is taken to be one fallible command, the multiplex ratio of the panel.
ConfigureWrites(sz) == <<CommandWrite(Cmd("MultiplexRatio", <<HEIGHT(sz) - 1>>))>>

\* init_basic with the display powered on before the voltage levels, the lock
\* and the scroll setup are sent.
InitBasicWritesEarlyOn(sz, rot) ==
    <<CommandWrite(Cmd("DisplayOn", <<FALSE>>))>>
    \o ConfigureWrites(sz)
    \o SetRotationWrites(rot)
    \o <<CommandWrite(Cmd("DisplayOffset", <<0>>)),
         CommandWrite(Cmd("DisplayMode", <<164>>)),
         CommandWrite(Cmd("PhaseLength", <<241>>)),
         CommandWrite(Cmd("FrontClockDivideRatio", <<0>>)),
         CommandWrite(Cmd("VoltageRegulator", <<TRUE>>))>>
    \o SetBrightnessWrites(DefaultBrightness)
    \o <<CommandWrite(Cmd("DisplayOn", <<TRUE>>)),
         CommandWrite(Cmd("VcomhVoltage", <<5>>)),
         CommandWrite(Cmd("PreChargeVoltage", <<5>>)),
         CommandWrite(Cmd("FunctionSelectionB", <<98>>)),
         CommandWrite(Cmd("CommandLock", <<FALSE>>)),
         CommandWrite(Cmd("HorizontalScrollSetup", <<0, 0, 63, 0, 127, 7>>)),
         CommandWrite(Cmd("EnableScroll", <<FALSE>>))>>

\* The writes of init_basic, in order.
InitBasicWrites(sz, rot) ==
    <<CommandWrite(Cmd("DisplayOn", <<FALSE>>))>>
    \o ConfigureWrites(sz)
    \o SetRotationWrites(rot)
    \o <<CommandWrite(Cmd("DisplayOffset", <<0>>)),
         CommandWrite(Cmd("DisplayMode", <<164>>)),
         CommandWrite(Cmd("PhaseLength", <<241>>)),
         CommandWrite(Cmd("FrontClockDivideRatio", <<0>>)),
         CommandWrite(Cmd("VoltageRegulator", <<TRUE>>))>>
    \o SetBrightnessWrites(DefaultBrightness)
    \o <<CommandWrite(Cmd("VcomhVoltage", <<5>>)),
         CommandWrite(Cmd("PreChargeVoltage", <<5>>)),
         CommandWrite(Cmd("FunctionSelectionB", <<98>>)),
         CommandWrite(Cmd("CommandLock", <<FALSE>>)),
         CommandWrite(Cmd("HorizontalScrollSetup", <<0, 0, 63, 0, 127, 7>>)),
         CommandWrite(Cmd("EnableScroll", <<FALSE>>)),
         CommandWrite(Cmd("DisplayOn", <<TRUE>>))>>

Zeros(n) == [i \in 1..n |-> 0]

\* clear() with the window starting at the origin.
ClearWritesFromOrigin(sz) ==
    SetDrawAreaWrites(<<0, 0>>, <<128, 128>>) \o <<DataWrite(Zeros(2048))>>

\* The writes of BasicMode's clear(), in order.
ClearWrites(sz) ==
    SetDrawAreaWrites(<<1, 1>>, <<128, 128>>) \o <<DataWrite(Zeros(2048))>>

-----------------------------------------------------------------------------
(* flush_buffer_chunks *)

Min(a, b) == IF a <= b THEN a ELSE b

\* buffer.chunks(w) for w > 0: consecutive slices of w bytes, the last one shorter
\* when the length is no multiple of w.
Chunks(buffer, w) ==
    LET n == (Len(buffer) + w - 1) \div w
    IN  [j \in 1..n |-> SubSeq(buffer, (j - 1) * w + 1, Min(j * w, Len(buffer)))]

\* .skip(starting_page).take(num_pages)
SkipTake(chunks, starting_page, num_pages) ==
    SubSeq(chunks, starting_page + 1, Min(starting_page + num_pages, Len(chunks)))

\* .map(|s| &s[page_lower..page_upper]).try_for_each(|c| interface.send_data(c)):
\* the iterator is lazy, so each chunk is sliced (a panic when the range does not
\* fit it) right before it is sent, and the first failing write ends the loop.
\* A page loop that goes on to the remaining pages after a failed write and
\* reports the first failure at the end.
RECURSIVE SendPagesContinuing(_, _, _, _, _, _)
SendPagesContinuing(chunks, page_lower, page_upper, sent, failAt, err) ==
    IF chunks = <<>>
    THEN [log |-> sent,
          result |-> IF \E i \in 1..Len(sent) : sent[i].res # "Ok" THEN Err(err) ELSE Ok]
    ELSE LET s == Head(chunks)
         IN  IF page_lower > page_upper \/ page_upper > Len(s)
             THEN [log |-> sent, result |-> Panic]
             ELSE LET ans == SinkAnswer(Len(sent) + 1, failAt, err)
                      e == Entry(DataWrite(SubSeq(s, page_lower + 1, page_upper)), ans)
                  IN  SendPagesContinuing(Tail(chunks), page_lower, page_upper,
                                          Append(sent, e), failAt, err)

RECURSIVE SendPages(_, _, _, _, _, _)
SendPages(chunks, page_lower, page_upper, sent, failAt, err) ==
    IF chunks = <<>> THEN [log |-> sent, result |-> Ok]
    ELSE LET s == Head(chunks)
         IN  IF page_lower > page_upper \/ page_upper > Len(s)
             THEN [log |-> sent, result |-> Panic]
             ELSE LET ans == SinkAnswer(Len(sent) + 1, failAt, err)
                      e == Entry(DataWrite(SubSeq(s, page_lower + 1, page_upper)), ans)
                  IN  IF ans # "Ok"
                      THEN [log |-> Append(sent, e), result |-> Err(ans)]
                      ELSE SendPages(Tail(chunks), page_lower, page_upper,
                                     Append(sent, e), failAt, err)

\* The page count without the final + 1.
NumPagesNoRound(diff) == diff \div 8

\* num_pages, from the row difference
NumPages(diff) == (diff \div 8) + 1

\* flush_buffer_chunks.  The u8 subtraction lower_right.1 - upper_left.1 panics
\* when overflow checks are compiled in and wraps otherwise; chunks(0) panics.
FlushBufferChunks(buffer, disp_width, upper_left, lower_right, failAt, err, overflowChecks) ==
    IF lower_right[2] < upper_left[2] /\ overflowChecks
    THEN [log |-> <<>>, result |-> Panic]
    ELSE LET diff == (lower_right[2] - upper_left[2]) % 256
             num_pages == NumPages(diff)
             starting_page == upper_left[2] \div 8
             page_lower == upper_left[1]
             page_upper == lower_right[1]
         IN  IF disp_width = 0
             THEN [log |-> <<>>, result |-> Panic]
             ELSE SendPages(SkipTake(Chunks(buffer, disp_width), starting_page, num_pages),
                            page_lower, page_upper, <<>>, failAt, err)

\* bounded_draw that programs the address window of the rectangle first.
BoundedDrawWindowed(buffer, disp_width, upper_left, lower_right, failAt, err, overflowChecks) ==
    LET w == TryAll(SetDrawAreaWrites(upper_left, lower_right), failAt, err)
        f == FlushBufferChunks(buffer, disp_width, upper_left, lower_right,
                               IF failAt > 2 THEN failAt - 2 ELSE 0, err, overflowChecks)
    IN  IF w.result.tag # "Ok" THEN w
        ELSE [log |-> w.log \o f.log, result |-> f.result]

\* bounded_draw: nothing but the call of flush_buffer_chunks
BoundedDraw(buffer, disp_width, upper_left, lower_right, failAt, err, overflowChecks) ==
    FlushBufferChunks(buffer, disp_width, upper_left, lower_right, failAt, err, overflowChecks)

-----------------------------------------------------------------------------
(* reset *)

\* Error::Pin, the wrapper inner_reset puts around a failure of the reset pin.
ErrorPin(e) == <<"Pin", e>>

\* The pin and delay operations of inner_reset, in program order.
ResetEvents ==
    <<[kind |-> "set_high", bytes |-> <<>>],
      [kind |-> "delay_ms", bytes |-> <<1>>],
      [kind |-> "set_low", bytes |-> <<>>],
      [kind |-> "delay_ms", bytes |-> <<10>>],
      [kind |-> "set_high", bytes |-> <<>>]>>

\* inner_reset that drops the `?`: it goes through the whole sequence and
\* reports a pin failure at the end.
InnerResetContinuing(pinFailAt, e) ==
    LET failed == pinFailAt \in 1..3
    IN  [log |-> [i \in 1..5 |->
                    Entry(ResetEvents[i], IF failed /\ i = 2 * pinFailAt - 1 THEN e ELSE "Ok")],
         result |-> IF failed THEN Err(ErrorPin(e)) ELSE Ok]

\* inner_reset: the pinFailAt-th pin operation (0: none) fails with e; a failed
\* set_high or set_low returns Error::Pin(e) at once; delay_ms cannot fail.
InnerReset(pinFailAt, e) ==
    LET failed == pinFailAt \in 1..3
        n == IF failed THEN 2 * pinFailAt - 1 ELSE 5
    IN  [log |-> [i \in 1..n |->
                    Entry(ResetEvents[i], IF failed /\ i = n THEN e ELSE "Ok")],
         result |-> IF failed THEN Err(ErrorPin(e)) ELSE Ok]

-----------------------------------------------------------------------------
(* Inputs of the calls *)

\* The sink of one call: which write fails, and with which error.
NoFailure == [failAt |-> 0, err |-> "none"]
Sinks(n) == {NoFailure} \cup {[failAt |-> i, err |-> e] : i \in 1..n, e \in Errors}

SampleBytes == {0, 1, 63, 64, 127, 128, 255}
ScrollBytes == {0, 63, 64, 255}

\* Command values: every variant; ColumnAddress over all of u8 x u8.
Commands ==
    {Cmd("ColumnAddress", <<a, b>>) : a \in Byte, b \in Byte}
    \cup {Cmd("RowAddress", <<a, b>>) : a \in SampleBytes, b \in SampleBytes}
    \cup {Cmd(v, <<a>>) : v \in {"Contrast", "Remap", "DisplayStartLine", "DisplayOffset",
                                 "MultiplexRatio", "SetGPIO", "SecondPreChargePeriod",
                                 "GrayScaleTable", "FunctionSelectionB"},
                          a \in SampleBytes}
    \cup {Cmd(v, <<b>>) : v \in {"VoltageRegulator", "DisplayOn", "CommandLock", "EnableScroll"},
                          b \in BOOLEAN}
    \cup {Cmd("DisplayMode", <<m>>) : m \in DisplayMode}
    \cup {Cmd("PhaseLength", <<m>>) : m \in PhaseLength}
    \cup {Cmd("FrontClockDivideRatio", <<m>>) : m \in FrontClockDivideRatio}
    \cup {Cmd("PreChargeVoltage", <<m>>) : m \in PreChargeVoltageLevel}
    \cup {Cmd("VcomhVoltage", <<m>>) : m \in VcomhLevel}
    \cup {Cmd("HorizontalScrollSetup", <<d, cs, ce, rs, re, f>>) :
            d \in HScrollDir, cs \in ScrollBytes, ce \in ScrollBytes,
            rs \in ScrollBytes, re \in ScrollBytes, f \in NFrames}
    \cup {Cmd("DefaultLinearGrayScaleTable", <<>>), Cmd("Noop", <<>>)}

\* Buffers: n bytes, the byte at each index telling the index.
Buffer(n) == [i \in 1..n |-> (7 * i) % 256]
BufLens == {16 * p : p \in 0..MaxPages} \cup {16 * MaxPages - 8}
Strides == {0, 16}
UpperLefts == {<<x, y>> : x \in {0, 8}, y \in {0, 7, 8}}
LowerRights == {<<x, y>> : x \in {4, 16, 24}, y \in {7, 8, 9, 16}}
AreaStarts == {<<x, y>> : x \in {0, 1, 127}, y \in {0, 1, 127}}
AreaEnds == {<<x, y>> : x \in {0, 1, 128, 255}, y \in {0, 1, 128, 255}}

\* Failures of the reset pin (the OutputPin's error type PinE).
PinErrors == {"PinLow", "PinFloating"}

ColumnInputs == {0, 1, 64, 128, 200}
RowInputs == {0, 7, 8, 9, 63, 64, 100, 127, 200}

-----------------------------------------------------------------------------
(* The calls *)

None == [name |-> "none"]

\* The caller is between calls.
Idle == op = None

\* The call o runs with outcome r (its bus trace and its return value).
Ran(o, r) == op' = o /\ log' = r.log /\ result' = r.result

\* Ssd1327::new
Init ==
    /\ mode = "Basic"
    /\ rotation \in Rotations
    /\ size \in Sizes
    /\ op = None
    /\ log = <<>>
    /\ result = Ok

\* The caller takes what the call returned; the next call starts a new bus trace.
Return ==
    /\ op # None
    /\ op' = None
    /\ log' = <<>>
    /\ result' = Ok
    /\ UNCHANGED <<mode, rotation, size>>

IntoBufferedGraphicsMode ==
    /\ Idle
    /\ mode' = IntoMode("BufferedGraphics")
    /\ Ran([name |-> "into_buffered_graphics_mode"], [log |-> <<>>, result |-> Ok])
    /\ UNCHANGED <<rotation, size>>

IntoTerminalMode ==
    /\ Idle
    /\ mode' = IntoMode("Terminal")
    /\ Ran([name |-> "into_terminal_mode"], [log |-> <<>>, result |-> Ok])
    /\ UNCHANGED <<rotation, size>>

\* init_basic; DisplayConfig::init of BasicMode is this call
InitBasic ==
    /\ Idle
    /\ \E sink \in Sinks(Len(InitBasicWrites(size, rotation))) :
           /\ Ran([name |-> "init"],
                  TryAll(InitBasicWrites(size, rotation), sink.failAt, sink.err))
           /\ UNCHANGED <<mode, rotation, size>>

\* set_rotation that stores the rotation once both writes have succeeded.
SetRotationStoringOnSuccess ==
    /\ Idle
    /\ \E rot \in Rotations, sink \in Sinks(2) :
           /\ rotation' = IF sink.failAt \in 1..2 THEN rotation ELSE rot
           /\ Ran([name |-> "set_rotation", rotation |-> rot],
                  TryAll(SetRotationWrites(rot), sink.failAt, sink.err))
           /\ UNCHANGED <<mode, size>>

SetRotation ==
    /\ Idle
    /\ \E rot \in Rotations, sink \in Sinks(2) :
           /\ rotation' = rot
           /\ Ran([name |-> "set_rotation", rotation |-> rot],
                  TryAll(SetRotationWrites(rot), sink.failAt, sink.err))
           /\ UNCHANGED <<mode, size>>

\* set_mirror that realises the mirror by storing another rotation.
SetMirrorStoring ==
    /\ Idle
    /\ \E mirror \in BOOLEAN, sink \in Sinks(2) :
           /\ rotation' = IF mirror /\ rotation = "Rotate0" THEN "Rotate180" ELSE rotation
           /\ Ran([name |-> "set_mirror", mirror |-> mirror],
                  TryAll(SetMirrorWrites(rotation, mirror), sink.failAt, sink.err))
           /\ UNCHANGED <<mode, size>>

SetMirror ==
    /\ Idle
    /\ \E mirror \in BOOLEAN, sink \in Sinks(2) :
           /\ Ran([name |-> "set_mirror", mirror |-> mirror],
                  TryAll(SetMirrorWrites(rotation, mirror), sink.failAt, sink.err))
           /\ UNCHANGED <<mode, rotation, size>>

SetBrightness ==
    /\ Idle
    /\ \E b \in Brightnesses, sink \in Sinks(2) :
           /\ Ran([name |-> "set_brightness", brightness |-> b],
                  TryAll(SetBrightnessWrites(b), sink.failAt, sink.err))
           /\ UNCHANGED <<mode, rotation, size>>

SetDisplayOn ==
    /\ Idle
    /\ \E on \in BOOLEAN, sink \in Sinks(1) :
           /\ Ran([name |-> "set_display_on", on |-> on],
                  Send(Cmd("DisplayOn", <<on>>), sink.failAt, sink.err))
           /\ UNCHANGED <<mode, rotation, size>>

SetDrawArea ==
    /\ Idle
    /\ \E start \in AreaStarts, end \in AreaEnds, sink \in Sinks(2) :
           /\ Ran([name |-> "set_draw_area", start |-> start, end |-> end],
                  TryAll(SetDrawAreaWrites(start, end), sink.failAt, sink.err))
           /\ UNCHANGED <<mode, rotation, size>>

SetColumn ==
    /\ Idle
    /\ \E column \in ColumnInputs, sink \in Sinks(1), overflowChecks \in BOOLEAN :
           /\ Ran([name |-> "set_column", column |-> column],
                  SetColumnRun(size, column, sink.failAt, sink.err, overflowChecks))
           /\ UNCHANGED <<mode, rotation, size>>

SetRow ==
    /\ Idle
    /\ \E row \in RowInputs, sink \in Sinks(1), overflowChecks \in BOOLEAN :
           /\ Ran([name |-> "set_row", row |-> row],
                  SetRowRun(size, row, sink.failAt, sink.err, overflowChecks))
           /\ UNCHANGED <<mode, rotation, size>>

Draw ==
    /\ Idle
    /\ \E n \in BufLens, sink \in Sinks(1) :
           /\ Ran([name |-> "draw", buffer |-> Buffer(n)],
                  TryAll(<<DataWrite(Buffer(n))>>, sink.failAt, sink.err))
           /\ UNCHANGED <<mode, rotation, size>>

BoundedDrawCall ==
    /\ Idle
    /\ \E n \in BufLens, w \in Strides, ul \in UpperLefts, lr \in LowerRights,
          sink \in Sinks(MaxPages), overflowChecks \in BOOLEAN :
           /\ Ran([name |-> "bounded_draw", buffer |-> Buffer(n), disp_width |-> w,
                   upper_left |-> ul, lower_right |-> lr],
                  BoundedDraw(Buffer(n), w, ul, lr, sink.failAt, sink.err, overflowChecks))
           /\ UNCHANGED <<mode, rotation, size>>

\* clear() offered by the display in every mode.
ClearAnyMode ==
    /\ Idle
    /\ \E sink \in Sinks(3) :
        Ran([name |-> "clear"], TryAll(ClearWrites(size), sink.failAt, sink.err))
    /\ UNCHANGED <<mode, rotation, size>>

\* clear() exists on the Basic display only
Clear ==
    /\ Idle
    /\ mode = "Basic"
    /\ \E sink \in Sinks(3) :
        Ran([name |-> "clear"], TryAll(ClearWrites(size), sink.failAt, sink.err))
    /\ UNCHANGED <<mode, rotation, size>>

DimensionsCall ==
    /\ Idle
    /\ Ran([name |-> "dimensions"], [log |-> <<>>, result |-> Val(Dimensions(size, rotation))])
    /\ UNCHANGED <<mode, rotation, size>>

\* reset (SPI interfaces): nothing but the call of inner_reset; the display
\* value and the bus are not touched.
Reset ==
    /\ Idle
    /\ \E pinFailAt \in 0..3, e \in PinErrors :
           Ran([name |-> "reset"], InnerReset(pinFailAt, e))
    /\ UNCHANGED <<mode, rotation, size>>

Next ==
    \/ IntoBufferedGraphicsMode
    \/ IntoTerminalMode
    \/ InitBasic
    \/ SetRotation
    \/ SetMirror
    \/ SetBrightness
    \/ SetDisplayOn
    \/ SetDrawArea
    \/ SetColumn
    \/ SetRow
    \/ Draw
    \/ BoundedDrawCall
    \/ Clear
    \/ DimensionsCall
    \/ Reset
    \/ Return

Spec == Init /\ [][Next]_vars

-----------------------------------------------------------------------------
(* The command layer on its own: Command::send and generate_remap called on a
   sink, with no display involved. *)

InitCommand ==
    /\ mode = "Basic"
    /\ rotation = "Rotate0"
    /\ size = "DisplaySize128x128"
    /\ op = None
    /\ log = <<>>
    /\ result = Ok

SendCall ==
    /\ Idle
    /\ \E c \in Commands, sink \in Sinks(1) :
           /\ Ran([name |-> "send", cmd |-> c], Send(c, sink.failAt, sink.err))
           /\ UNCHANGED <<mode, rotation, size>>

GenerateRemapCall ==
    /\ Idle
    /\ \E f \in [1..7 -> BOOLEAN] :
           /\ Ran([name |-> "generate_remap", flags |-> f],
                  [log |-> <<>>,
                   result |-> Val(GenerateRemap(f[1], f[2], f[3], f[4], f[5], f[6], f[7]))])
           /\ UNCHANGED <<mode, rotation, size>>

NextCommand == SendCall \/ GenerateRemapCall \/ Return

SpecCommand == InitCommand /\ [][NextCommand]_vars

-----------------------------------------------------------------------------
(* Properties *)

\* C1: for every combination of the seven flags, bit i (0..6, in the order of the
\* parameters) of generate_remap's byte is set exactly when the i-th flag is true,
\* and bit 7 is clear.
C1_RemapBitsFollowFlags ==
    op.name = "generate_remap" =>
        /\ result.tag = "Val"
        /\ result.val \in Byte
        /\ \A i \in 0..6 : Bit(result.val, i) = BoolU8(op.flags[i + 1])
        /\ Bit(result.val, 7) = 0

C1_Witness ==
    /\ op.name = "generate_remap"
    /\ op.flags = <<FALSE, TRUE, FALSE, TRUE, TRUE, TRUE, FALSE>>
    /\ result = Val(58)

\* C2: for all a, b in 0..255, Command::ColumnAddress(a, b) encodes to
\* [0x15, a, b, 0, 0, 0, 0] with length 3, and exactly the bytes 0x15, a, b reach the
\* sink as one command payload; a and b are not masked.
C2_ColumnAddressUnmasked ==
    (op.name = "send" /\ op.cmd.v = "ColumnAddress") =>
        LET a == op.cmd.p[1]
            b == op.cmd.p[2]
        IN  /\ Encode(op.cmd).data = <<21, a, b, 0, 0, 0, 0>>
            /\ Encode(op.cmd).len = 3
            /\ Len(log) = 1
            /\ log[1].kind = "cmd"
            /\ log[1].bytes = <<21, a, b>>

C2_Witness ==
    /\ op.name = "send"
    /\ op.cmd = Cmd("ColumnAddress", <<200, 64>>)
    /\ log = <<[kind |-> "cmd", bytes |-> <<21, 200, 64>>, res |-> "Ok"]>>
    /\ result = Ok

\* C3: a transport failure on any command of init ends the sequence: the failing
\* write is the last one the sink receives, init returns the sink's error unchanged,
\* and DisplayOn(true) is not sent after a failed command.
C3_InitAbortsOnFailure ==
    op.name = "init" =>
        /\ result.tag \in {"Ok", "Err"}
        /\ \A i \in 1..Len(log) :
              log[i].res # "Ok" => (i = Len(log) /\ result = Err(log[i].res))
        /\ \A j \in 1..Len(log) :
              (log[j].kind = "cmd" /\ log[j].bytes = <<175>>) =>
                  \A i \in 1..(j - 1) : log[i].res = "Ok"
        /\ result.tag = "Ok" => \A i \in 1..Len(log) : log[i].res = "Ok"
        /\ result.tag = "Err" => (Len(log) >= 1 /\ log[Len(log)].res = result.err)

C3_Witness ==
    /\ op.name = "init"
    /\ Len(log) = 5
    /\ log[5].res = "DCError"
    /\ result = Err("DCError")

\* C4 as stated: every bounded_draw that writes a page has first sent the address
\* window of its rectangle (ColumnAddress, then RowAddress, as set_draw_area does).
C4_WindowBeforePageWrite ==
    (op.name = "bounded_draw" /\ \E i \in 1..Len(log) : log[i].kind = "data") =>
        /\ Len(log) >= 3
        /\ log[1].kind = "cmd"
        /\ log[1].bytes = <<21, op.upper_left[1], SaturatingSub(op.lower_right[1], 1)>>
        /\ log[2].kind = "cmd"
        /\ log[2].bytes = <<117, op.upper_left[2], SaturatingSub(op.lower_right[2], 1)>>

\* C4, amended: bounded_draw sends page data only, at the window the chip is
\* currently programmed with; it sends no command, so the address window is never
\* programmed within the call.
C4_BoundedDrawSendsDataOnly ==
    op.name = "bounded_draw" => \A i \in 1..Len(log) : log[i].kind = "data"

C4_Witness ==
    /\ op.name = "bounded_draw"
    /\ op.upper_left = <<8, 8>>
    /\ op.lower_right = <<16, 16>>
    /\ Len(log) = 2
    /\ log[1].kind = "data"
    /\ result = Ok

\* The case of C5: stride 16, upper_left (0, 0), lower_right (16, 8k), a buffer of
\* whole 16-byte pages holding the k pages of the rectangle or more, and no
\* failure of the sink.
C5_Case(k) ==
    /\ op.name = "bounded_draw"
    /\ op.disp_width = 16
    /\ op.upper_left = <<0, 0>>
    /\ op.lower_right = <<16, 8 * k>>
    /\ Len(op.buffer) % 16 = 0
    /\ Len(op.buffer) >= 16 * k
    /\ result.tag = "Ok"

\* C5 as stated: in that case exactly k data writes of 16 bytes are issued.
C5_ExactlyKPageWrites ==
    \A k \in 1..MaxPages :
        C5_Case(k) =>
            /\ Len(log) = k
            /\ \A i \in 1..Len(log) : log[i].kind = "data" /\ Len(log[i].bytes) = 16

\* C5, amended: in that case the page of row 8k is written too: k + 1 data writes
\* of 16 bytes each (the pages 0..k of the buffer, in order), or as many as the
\* buffer holds when it holds fewer.
C5_KPlusOnePageWrites ==
    \A k \in 1..MaxPages :
        C5_Case(k) =>
            /\ Len(log) = Min(k + 1, Len(op.buffer) \div 16)
            /\ \A i \in 1..Len(log) :
                  /\ log[i].kind = "data"
                  /\ Len(log[i].bytes) = 16
                  /\ log[i].bytes = SubSeq(op.buffer, 16 * (i - 1) + 1, 16 * i)

C5_Witness ==
    /\ C5_Case(1)
    /\ Len(op.buffer) = 48
    /\ Len(log) = 2

\* C6 as stated: once the display is in BufferedGraphics or Terminal mode, no
\* operation changes its mode.
C6_ModeFinalOnceConverted ==
    [][mode # "Basic" => mode' = mode]_vars

\* C6, amended: the mode changes only by into_buffered_graphics_mode (to
\* BufferedGraphics) and into_terminal_mode (to Terminal), which are available in
\* every mode; no operation leads back to Basic.
C6_ModeChangesOnlyByConversion ==
    [][mode' # mode =>
          \/ (op'.name = "into_buffered_graphics_mode" /\ mode' = "BufferedGraphics")
          \/ (op'.name = "into_terminal_mode" /\ mode' = "Terminal")]_vars

C6_Witness ==
    /\ mode = "Terminal"
    /\ op.name = "set_rotation"
    /\ result = Ok

\* C7: every Command variant encodes, without failing, to 1..7 bytes, and send
\* forwards exactly bytes[0..length] as one command write; send fails only with the
\* sink's transport error.
C7_EveryCommandEncodes ==
    op.name = "send" =>
        /\ result.tag \in {"Ok", "Err"}
        /\ ~Encode(op.cmd).panic
        /\ Encode(op.cmd).len \in 1..7
        /\ Len(log) = 1
        /\ log[1].kind = "cmd"
        /\ log[1].bytes = SubSeq(Encode(op.cmd).data, 1, Encode(op.cmd).len)
        /\ result.tag = "Err" => log[1].res = result.err

\* The (remap, start_line) pair C8 gives for each rotation.
C8_Pair(rot) ==
    CASE rot = "Rotate0" -> <<92, 0>>
      [] rot = "Rotate90" -> <<88, 0>>
      [] rot = "Rotate180" -> <<21, 0>>
      [] rot = "Rotate270" -> <<23, 120>>

\* C8: set_rotation sends Remap(remap), then DisplayStartLine(start_line), with the
\* fixed pair of the rotation (0x5C/0x00, 0x58/0x00, 0x15/0x00, 0x17/0x78) and
\* nothing else; both are sent unless the sink fails; the four pairs the driver
\* uses are pairwise distinct.
C8_RotationCommands ==
    /\ op.name = "set_rotation" =>
          LET full == <<<<160, C8_Pair(op.rotation)[1]>>, <<161, C8_Pair(op.rotation)[2]>>>>
          IN  /\ Len(log) \in 1..2
              /\ \A i \in 1..Len(log) : log[i].kind = "cmd" /\ log[i].bytes = full[i]
              /\ result.tag = "Ok" => Len(log) = 2
    /\ \A r1, r2 \in Rotations : r1 # r2 => RotationPair(r1) # RotationPair(r2)

C8_Witness ==
    /\ op.name = "set_rotation"
    /\ op.rotation = "Rotate270"
    /\ result = Ok
    /\ log[1].bytes = <<160, 23>>
    /\ log[2].bytes = <<161, 120>>

\* C9: dimensions() is (WIDTH, HEIGHT) at 0 and 180 degrees and (HEIGHT, WIDTH) at
\* 90 and 270 degrees, in every mode and whatever set_rotation calls came before.
C9_DimensionsFollowRotation ==
    op.name = "dimensions" =>
        LET w == 128
            h == IF size = "DisplaySize128x64" THEN 64 ELSE 128
        IN  /\ result.tag = "Val"
            /\ rotation \in {"Rotate0", "Rotate180"} => result.val = <<w, h>>
            /\ rotation \in {"Rotate90", "Rotate270"} => result.val = <<h, w>>

C9_Witness ==
    /\ op.name = "dimensions"
    /\ mode = "Terminal"
    /\ size = "DisplaySize128x64"
    /\ rotation = "Rotate90"
    /\ result = Val(<<64, 128>>)

\* C10: on the 128x128 display, clear() with a sink that does not fail sends
\* command [0x15, 1, 127], command [0x75, 1, 127] and one data write of 2048 zero
\* bytes, in this order and nothing else.
C10_ClearTrace ==
    (op.name = "clear" /\ size = "DisplaySize128x128" /\ result.tag = "Ok") =>
        /\ mode = "Basic"
        /\ Len(log) = 3
        /\ log[1] = [kind |-> "cmd", bytes |-> <<21, 1, 127>>, res |-> "Ok"]
        /\ log[2] = [kind |-> "cmd", bytes |-> <<117, 1, 127>>, res |-> "Ok"]
        /\ log[3].kind = "data"
        /\ log[3].res = "Ok"
        /\ Len(log[3].bytes) = 2048
        /\ \A i \in 1..2048 : log[3].bytes[i] = 0

C10_Witness ==
    /\ op.name = "clear"
    /\ size = "DisplaySize128x128"
    /\ result = Ok
    /\ Len(log) = 3

\* C11: for every display size, clear() in Basic mode with a sink that does not
\* fail sends the address window commands and then one data write of
\* WIDTH * HEIGHT / 8 zero bytes (1024 for 128x64).
C11_ClearSizedToDisplay ==
    (op.name = "clear" /\ result.tag = "Ok") =>
        LET n == IF size = "DisplaySize128x64" THEN (128 * 64) \div 8 ELSE (128 * 128) \div 8
        IN  /\ Len(log) = 3
            /\ log[1].kind = "cmd" /\ log[1].bytes[1] = 21
            /\ log[2].kind = "cmd" /\ log[2].bytes[1] = 117
            /\ log[3].kind = "data"
            /\ Len(log[3].bytes) = n
            /\ \A i \in 1..Len(log[3].bytes) : log[3].bytes[i] = 0

\* The opcodes of the commands init sends after the size configuration.
C12_Opcodes == <<160, 161, 162, 164, 177, 179, 171, 182, 129, 190, 188, 213, 253, 38, 46, 175>>

\* C12: in an init run without transport failure the first write is DisplayOn(false)
\* (0xAE), the last one DisplayOn(true) (0xAF), and between them come, in this
\* order, the size configuration, Remap and DisplayStartLine, DisplayOffset and
\* DisplayMode, PhaseLength, FrontClockDivideRatio and VoltageRegulator,
\* SecondPreChargePeriod and Contrast, VcomhVoltage and PreChargeVoltage,
\* FunctionSelectionB, CommandLock, HorizontalScrollSetup and EnableScroll(false);
\* DisplayOn(true) is sent nowhere before the end.
C12_InitOrder ==
    (op.name = "init" /\ result.tag = "Ok") =>
        LET n == Len(log)
            k == Len(C12_Opcodes)
        IN  /\ n > k
            /\ \A i \in 1..n : log[i].kind = "cmd" /\ log[i].res = "Ok"
            /\ log[1].bytes = <<174>>
            /\ log[n].bytes = <<175>>
            /\ \A i \in 1..(n - 1) : log[i].bytes # <<175>>
            /\ \A i \in 1..k : log[n - k + i].bytes[1] = C12_Opcodes[i]
            /\ log[n - 1].bytes = <<46>>
            /\ \A i \in 2..(n - k) :
                  \A j \in 1..k : log[i].bytes[1] # C12_Opcodes[j]

C12_Witness ==
    /\ op.name = "init"
    /\ size = "DisplaySize128x64"
    /\ rotation = "Rotate270"
    /\ result = Ok
    /\ Len(log) = 18
    /\ log[3].bytes = <<160, 23>>

\* C13 as stated: draw and bounded_draw (like clear) exist in Basic mode only, so
\* no bus write of a direct draw or bounded_draw call comes from a display in
\* BufferedGraphics or Terminal mode.
C13_RawDrawOnlyInBasic ==
    (op.name \in {"draw", "bounded_draw", "clear"} /\ Len(log) > 0) => mode = "Basic"

\* C13, amended: of the raw pixel primitives only clear() is restricted to Basic
\* mode; draw and bounded_draw are defined for every mode and write to the bus
\* from a BufferedGraphics or Terminal display too.
C13_OnlyClearIsBasicOnly ==
    op.name = "clear" => mode = "Basic"

C13_Witness ==
    /\ mode = "BufferedGraphics"
    /\ op.name = "bounded_draw"
    /\ Len(log) = 2
    /\ result = Ok

\* C14: for a rectangle whose rows do not start or end on a page boundary, every
\* page p with upper_left.y / 8 <= p <= (lower_right.y - 1) / 8 that the buffer
\* holds is written (rows 7..9: pages 0 and 1).
C14_CoveringPagesWritten ==
    (/\ op.name = "bounded_draw"
     /\ result.tag = "Ok"
     /\ op.disp_width = 16
     /\ op.upper_left[2] <= op.lower_right[2]
     /\ ~(op.upper_left[2] % 8 = 0 /\ op.lower_right[2] % 8 = 0)) =>
        \A p \in (op.upper_left[2] \div 8)..((op.lower_right[2] - 1) \div 8) :
            Len(op.buffer) >= 16 * (p + 1) =>
                \E i \in 1..Len(log) :
                    /\ log[i].kind = "data"
                    /\ log[i].bytes = SubSeq(op.buffer, 16 * p + op.upper_left[1] + 1,
                                             16 * p + op.lower_right[1])

\* C15: the stored rotation changes only by a set_rotation call: init, set_mirror,
\* set_brightness, set_display_on, set_draw_area, set_column, set_row, draw,
\* bounded_draw, clear and the mode conversions leave it as it was, whether they
\* succeed or fail; the conversions also keep the size and write nothing to the bus.
C15_RotationOnlyBySetRotation ==
    [][/\ rotation' # rotation => op'.name = "set_rotation"
       /\ op'.name \in {"init", "set_mirror", "set_brightness", "set_display_on",
                        "set_draw_area", "set_column", "set_row", "draw", "bounded_draw",
                        "clear", "into_buffered_graphics_mode", "into_terminal_mode"}
             => rotation' = rotation
       /\ op'.name \in {"into_buffered_graphics_mode", "into_terminal_mode"}
             => (size' = size /\ log' = <<>>)]_vars

C15_Witness ==
    /\ op.name = "set_mirror"
    /\ op.mirror
    /\ rotation = "Rotate0"
    /\ result.tag = "Err"
    /\ Len(log) = 2

\* C16: set_mirror(true) at a stored rotation of 0 or 180 degrees sends the remap
\* byte of set_rotation for that rotation with bit 0 (column remap) flipped and
\* every other bit unchanged, and the same DisplayStartLine value.
C16_MirrorFlipsColumnRemap ==
    (/\ op.name = "set_mirror"
     /\ op.mirror
     /\ rotation \in {"Rotate0", "Rotate180"}
     /\ result.tag = "Ok") =>
        LET plain == RotationPair(rotation)[1]
            flipped == IF plain % 2 = 0 THEN plain + 1 ELSE plain - 1
        IN  /\ Len(log) = 2
            /\ log[1].bytes = <<160, flipped>>
            /\ log[2].bytes = <<161, RotationPair(rotation)[2]>>

\* C17 as stated: every numeric parameter is masked to its register's width
\* before it is sent: the ColumnAddress bytes are in 0..63, the RowAddress bytes
\* in 0..127 and the DisplayOffset byte in 0..63, whatever the inputs.
C17_ParametersMasked ==
    (op.name = "send" /\ Len(log) = 1) =>
        LET b == log[1].bytes
        IN  /\ op.cmd.v = "ColumnAddress" => (b[2] \in 0..63 /\ b[3] \in 0..63)
            /\ op.cmd.v = "RowAddress" => (b[2] \in 0..127 /\ b[3] \in 0..127)
            /\ op.cmd.v = "DisplayOffset" => b[2] \in 0..63

\* C17, amended: the u8 parameters of ColumnAddress, RowAddress, DisplayOffset
\* and the other one-byte commands are put on the bus unchanged for every value
\* 0..255; only GrayScaleTable (low 4 bits) and the row (7 bits) and column
\* (6 bits) fields of HorizontalScrollSetup are masked.
C17_ParametersPassThrough ==
    (op.name = "send" /\ Len(log) = 1) =>
        LET b == log[1].bytes
            p == op.cmd.p
        IN  /\ op.cmd.v \in {"ColumnAddress", "RowAddress"} =>
                  (Len(b) = 3 /\ b[2] = p[1] /\ b[3] = p[2])
            /\ op.cmd.v \in {"Contrast", "Remap", "DisplayStartLine", "DisplayOffset",
                             "MultiplexRatio", "SetGPIO", "SecondPreChargePeriod",
                             "FunctionSelectionB"} =>
                  (Len(b) = 2 /\ b[2] = p[1])
            /\ op.cmd.v = "GrayScaleTable" => (Len(b) = 2 /\ b[2] = p[1] % 16)
            /\ op.cmd.v = "HorizontalScrollSetup" =>
                  /\ Len(b) = 7
                  /\ b[3] = p[4] % 128
                  /\ b[5] = p[5] % 128
                  /\ b[6] = p[2] % 64
                  /\ b[7] = p[3] % 64

C17_Witness ==
    /\ op.name = "send"
    /\ op.cmd = Cmd("ColumnAddress", <<200, 64>>)
    /\ result = Ok
    /\ log[1].bytes = <<21, 200, 64>>

\* C18: set_draw_area(start, end) sends ColumnAddress(start.x, end.x - 1) and then
\* RowAddress(start.y, end.y - 1); an end coordinate of 0 gives the end byte 0;
\* a failed ColumnAddress write is the only write of the call.
C18_DrawAreaInclusiveEnds ==
    op.name = "set_draw_area" =>
        LET less1(e) == IF e = 0 THEN 0 ELSE e - 1
        IN  /\ Len(log) \in {1, 2}
            /\ log[1].kind = "cmd"
            /\ log[1].bytes = <<21, op.start[1], less1(op.end[1])>>
            /\ Len(log) = 2 <=> log[1].res = "Ok"
            /\ Len(log) = 2 =>
                  /\ log[2].kind = "cmd"
                  /\ log[2].bytes = <<117, op.start[2], less1(op.end[2])>>
            /\ result = Ok => Len(log) = 2

C18_Witness ==
    /\ op.name = "set_draw_area"
    /\ op.start = <<1, 127>>
    /\ op.end = <<0, 128>>
    /\ result = Ok
    /\ log[1].bytes = <<21, 1, 0>>
    /\ log[2].bytes = <<117, 127, 127>>

\* C19: in set_rotation, set_mirror, set_brightness, set_draw_area, clear and
\* bounded_draw a failed sink write is the last write of the call (no later
\* command or page, no second attempt of the failed write) and the call returns
\* that write's error; a call that returns Ok had no failed write.
C19_FirstFailureEndsCall ==
    op.name \in {"set_rotation", "set_mirror", "set_brightness", "set_draw_area",
                 "clear", "bounded_draw"} =>
        /\ \A i \in 1..Len(log) :
              log[i].res # "Ok" => (i = Len(log) /\ result = Err(log[i].res))
        /\ result.tag = "Err" => (Len(log) >= 1 /\ log[Len(log)].res = result.err)

C19_Witness ==
    /\ op.name = "bounded_draw"
    /\ Len(op.buffer) = 48
    /\ op.disp_width = 16
    /\ op.upper_left = <<0, 0>>
    /\ op.lower_right = <<16, 16>>
    /\ Len(log) = 2
    /\ log[1].res = "Ok"
    /\ result = Err("BusWriteError")

\* C20: for every row below HEIGHT, set_row(row) sends a RowAddress command whose
\* start byte is the first row of the 8-pixel page holding row: row - (row mod 8).
C20_SetRowRoundsToPage ==
    (op.name = "set_row" /\ op.row < HEIGHT(size) /\ Len(log) >= 1) =>
        /\ log[1].bytes[1] = 117
        /\ log[1].bytes[2] = op.row - (op.row % 8)

\* C21: reset does set_high, delay_ms(1), set_low, delay_ms(10), set_high in this
\* order and writes nothing to the bus; a failed pin operation is the last event
\* of the call (no later pin operation, no later delay) and the call returns
\* Error::Pin with that failure; with no failure all five events happen.
C21_ResetSequence ==
    op.name = "reset" =>
        /\ Len(log) \in {1, 3, 5}
        /\ \A i \in 1..Len(log) :
              /\ log[i].kind = ResetEvents[i].kind
              /\ log[i].bytes = ResetEvents[i].bytes
              /\ log[i].kind \notin {"cmd", "data"}
              /\ log[i].res # "Ok" =>
                    /\ i = Len(log)
                    /\ log[i].kind \in {"set_high", "set_low"}
                    /\ result = Err(ErrorPin(log[i].res))
        /\ result = Ok <=> (Len(log) = 5 /\ log[5].res = "Ok")
        /\ result # Ok => (result.tag = "Err" /\ result.err[1] = "Pin"
                           /\ log[Len(log)].res = result.err[2])

C21_Witness ==
    /\ op.name = "reset"
    /\ Len(log) = 3
    /\ log[2] = [kind |-> "delay_ms", bytes |-> <<1>>, res |-> "Ok"]
    /\ log[3].kind = "set_low"
    /\ result = Err(ErrorPin("PinLow"))

\* C22: after set_rotation(r) the stored rotation, which rotation() returns and
\* dimensions() transposes by, is r whatever the call returned: also when the
\* Remap write or the DisplayStartLine write failed and the chip got at most
\* the Remap command.
C22_RotationStoredBeforeSend ==
    op.name = "set_rotation" =>
        /\ rotation = op.rotation
        /\ Dimensions(size, rotation) =
              IF op.rotation \in {"Rotate0", "Rotate180"}
              THEN <<WIDTH(size), HEIGHT(size)>>
              ELSE <<HEIGHT(size), WIDTH(size)>>
        /\ result.tag = "Err" =>
              /\ Len(log) \in {1, 2}
              /\ log[Len(log)].res = result.err
              /\ \A i \in 1..Len(log) : log[i].bytes = SetRotationWrites(op.rotation)[i].bytes

C22_Witness ==
    /\ op.name = "set_rotation"
    /\ op.rotation = "Rotate90"
    /\ size = "DisplaySize128x64"
    /\ result = Err("BusWriteError")
    /\ Len(log) = 1
    /\ rotation = "Rotate90"
    /\ Dimensions(size, rotation) = <<64, 128>>

=============================================================================
